---- MODULE Spec2Model ----
(***************************************************************************)
(* The Steam ingestion pipeline: extract_and_upload (plugins/steam_etl.py) *)
(* followed by the load of the cleaned blobs into the staging table and    *)
(* the SCD type 2 MERGE into the versioned table (dags/steam_dag.py).      *)
(***************************************************************************)
EXTENDS Integers, Sequences, FiniteSets, TLC

(***************************************************************************)
(* Bounds of the model.                                                    *)
(***************************************************************************)
MaxAppId == 2          \* app ids of the small catalogue are 1..MaxAppId
MaxDate == 2           \* run dates (ds) are 1..MaxDate
MaxListLen == 2        \* longest upstream id listing of the small catalogue
MaxSeen == 200         \* most ids in the versioned table of the large catalogue
MaxCand == 401         \* largest candidate id of the large catalogue
MidId == 151           \* an id inside the large catalogue (a start, a pivot)
MaxValidate == 49      \* longest listing validate_app_ids is applied to alone
MaxWork == 601         \* ids of the work set that takes more batches than workers

(***************************************************************************)
(* Program constants.                                                      *)
(***************************************************************************)
SentinelAppId == 999999     \* "not found" id of the detail API
batch_size == 200
max_workers == 3
sample_size == 100
sample_percent == 1         \* sample_fraction = 0.01, in hundredths
retries == 3

NULL == "<null>"
NoDate == 0                 \* a NULL date (valid_to of an active row)
NoMax == -1                 \* conf holds no max_apps

AppIds == 1..MaxAppId
Dates == 1..MaxDate

(***************************************************************************)
(* Strings whose characters matter (the owners range) are sequences of     *)
(* one-character strings.                                                  *)
(***************************************************************************)
Digits == <<"0", "1", "2", "3", "4", "5", "6", "7", "8", "9">>

IsDigit(c) == \E d \in 1..10 : Digits[d] = c

DigitVal(c) == (CHOOSE d \in 1..10 : Digits[d] = c) - 1

\* str.replace(old, "") for a one-character old
RemoveChar(s, c) == SelectSeq(s, LAMBDA x : x # c)

StartsAt(s, sep, i) ==
    /\ i + Len(sep) - 1 <= Len(s)
    /\ SubSeq(s, i, i + Len(sep) - 1) = sep

RECURSIVE SplitRec(_, _, _, _)
SplitRec(s, sep, i, cur) ==
    IF i > Len(s) THEN <<cur>>
    ELSE IF StartsAt(s, sep, i)
         THEN <<cur>> \o SplitRec(s, sep, i + Len(sep), <<>>)
         ELSE SplitRec(s, sep, i + 1, Append(cur, s[i]))

\* str.split(sep): the parts between the non-overlapping occurrences of sep
Split(s, sep) == SplitRec(s, sep, 1, <<>>)

RECURSIVE LStrip(_)
LStrip(s) == IF s # <<>> /\ Head(s) = " " THEN LStrip(Tail(s)) ELSE s

RECURSIVE RStrip(_)
RStrip(s) ==
    IF s # <<>> /\ s[Len(s)] = " " THEN RStrip(SubSeq(s, 1, Len(s) - 1)) ELSE s

Unsigned(s) == IF s # <<>> /\ Head(s) \in {"+", "-"} THEN Tail(s) ELSE s

\* the grammar of int(str): digits, single underscores between digits
IsIntBody(b) ==
    /\ b # <<>>
    /\ IsDigit(b[1])
    /\ IsDigit(b[Len(b)])
    /\ \A i \in 1..Len(b) : IsDigit(b[i]) \/ b[i] = "_"
    /\ \A i \in 1..(Len(b) - 1) : ~(b[i] = "_" /\ b[i + 1] = "_")

RECURSIVE DigitsValue(_)
DigitsValue(b) ==
    IF b = <<>> THEN 0
    ELSE 10 * DigitsValue(SubSeq(b, 1, Len(b) - 1)) + DigitVal(b[Len(b)])

\* int(s) raises ValueError
IntRaises(s) == ~IsIntBody(Unsigned(RStrip(LStrip(s))))

\* int(s) when it does not raise
IntValue(s) ==
    LET t == RStrip(LStrip(s))
        v == DigitsValue(RemoveChar(Unsigned(t), "_"))
    IN IF t # <<>> /\ Head(t) = "-" THEN 0 - v ELSE v

(***************************************************************************)
(* Detail payloads (the JSON object app_data) and the responses of the     *)
(* detail API.  kind "error" is an HTTP error, a timeout or a body that is *)
(* no JSON; kind "empty" is a falsy JSON value; kind "data" is an object   *)
(* with the fields below.  owners_kind is "missing" (no such key), "null"  *)
(* (JSON null) or "str"; price_kind is "null" (missing or null), "free"    *)
(* ("Free to Play") or "num" (a number of cents); tags is a dict           *)
(* (tags_isdict, its keys in tags) or something else, such as [].          *)
(***************************************************************************)
OwnersRange == <<"0", " ", ".", ".", " ", "2", "0", ",", "0", "0", "0">>
OwnersSingle == <<"0">>
OwnersGarbage == <<"n", "/", "a">>
OwnersDefault == <<"0", " ", ".", ".", " ", "0">>
RangeSep == <<" ", ".", ".", " ">>

PBase ==
    [kind |-> "data", appid |-> 1, name |-> "a",
     owners_kind |-> "str", owners |-> OwnersRange,
     price_kind |-> "num", price |-> 999,
     tags_isdict |-> TRUE, tags |-> {}]

PCheaper == [PBase EXCEPT !.price = 799]
PFree == [PBase EXCEPT !.price_kind = "free", !.price = 0]
PRenamed == [PBase EXCEPT !.name = "b"]
PNoName == [PBase EXCEPT !.name = NULL]
PNullOwners == [PBase EXCEPT !.owners_kind = "null", !.owners = <<>>]
PMissingOwners == [PBase EXCEPT !.owners_kind = "missing", !.owners = <<>>]
PBadOwners == [PBase EXCEPT !.owners = OwnersGarbage]
PSingleOwners == [PBase EXCEPT !.owners = OwnersSingle]
PTags == [PBase EXCEPT !.tags = {"RPG", "Indie"}]
PNoTags == [PBase EXCEPT !.tags_isdict = FALSE]
PSentinel == [PBase EXCEPT !.appid = SentinelAppId]
PEmpty == [PBase EXCEPT !.kind = "empty"]
PError == [PBase EXCEPT !.kind = "error"]

\* what fetch_app_details returns for "no usable payload"
None == [PBase EXCEPT !.kind = "none"]

\* what the detail API may serve in one behaviour: per run date (the last
\* entry for the later dates), the payloads it answers with on that date
Catalogs ==
    { <<{PBase}, {PCheaper}>>,
      <<{PBase, PSentinel}, {PNoName, PEmpty}>>,
      <<{PNoName}, {PRenamed}>>,
      <<{PSingleOwners, PNullOwners}>>,
      <<{PMissingOwners}, {PBadOwners}>>,
      <<{PTags}>>,
      <<{PNoTags}, {PFree}>> }

Served(cat, d) == cat[IF d < 1 THEN 1 ELSE IF d < Len(cat) THEN d ELSE Len(cat)]

fetch_app_details(response) ==
    IF response.kind = "data" /\ response.appid # SentinelAppId
    THEN response
    ELSE None

(***************************************************************************)
(* The transformation of fetch_batch.  Fields of the cleaned record that   *)
(* are not modelled (genre, languages, the other integer metrics,          *)
(* developer, publisher, score_rank, initialprice, discount) are built the *)
(* way one of the modelled fields is.                                      *)
(***************************************************************************)
Lower(tag) ==
    IF tag = "RPG" THEN "rpg" ELSE IF tag = "Indie" THEN "indie" ELSE tag

LowerTags == {"rpg", "indie"}

\* the orders in which list(set(...)) may enumerate the lower-cased tags
TagOrders ==
    {o \in [1..Cardinality(LowerTags) -> LowerTags] :
        \A t \in LowerTags : \E k \in DOMAIN o : o[k] = t}

TagList(app_data, order) ==
    IF app_data.tags_isdict
    THEN SelectSeq(order, LAMBDA t : \E tag \in app_data.tags : Lower(tag) = t)
    ELSE <<>>

\* app_data.get("owners", "0 .. 0").replace(",", "").split(" .. ")
owners_range(app_data) ==
    Split(RemoveChar(IF app_data.owners_kind = "missing"
                     THEN OwnersDefault
                     ELSE app_data.owners, ","), RangeSep)

\* the transformation raises (AttributeError on None, ValueError of int)
TransformRaises(app_data) ==
    \/ app_data.owners_kind = "null"
    \/ IntRaises(owners_range(app_data)[1])
    \/ Len(owners_range(app_data)) > 1 /\ IntRaises(owners_range(app_data)[2])

min_owners(app_data) == IntValue(owners_range(app_data)[1])

\* a transformation that would take the first bound for both
MaxOwnersOfFirstBound(app_data) == IntValue(owners_range(app_data)[1])

max_owners(app_data) ==
    IF Len(owners_range(app_data)) > 1
    THEN IntValue(owners_range(app_data)[2])
    ELSE min_owners(app_data)

\* the price in hundredths of the currency unit (cents / 100 in the code)
price(app_data) ==
    IF app_data.price_kind \in {"null", "free"} THEN 0 ELSE app_data.price

RawRecord(appid, app_data, execution_date) ==
    [appid |-> appid, name |-> app_data.name, data |-> app_data,
     load_date |-> execution_date]

CleanedRecord(appid, app_data, execution_date, order) ==
    [appid |-> appid,
     name |-> app_data.name,
     tags |-> TagList(app_data, order),
     owners_null |-> app_data.owners_kind # "str",
     owners |-> app_data.owners,
     min_owners |-> min_owners(app_data),
     max_owners |-> max_owners(app_data),
     price |-> price(app_data),
     load_date |-> execution_date]

(***************************************************************************)
(* The MERGE statement of apply_scd_merge.  T is the versioned table       *)
(* (store), S the staging table; both are sequences of rows, a row's       *)
(* position being its identity.                                            *)
(***************************************************************************)
RECURSIVE ArrayToString(_)
ArrayToString(a) ==
    IF a = <<>> THEN <<>>
    ELSE IF Len(a) = 1 THEN <<a[1]>>
    ELSE <<a[1], ",">> \o ArrayToString(Tail(a))

\* a join that would pair every staged row with every versioned row
MatchesAnyId(t, s) == t.appid = t.appid /\ s.appid = s.appid

\* ON T.appid = S.appid
Matches(t, s) == t.appid = s.appid

\* a change detection that would also compare the dates, which the
\* statement does not
DiffersOrLaterDate(t, s) ==
    \/ t.name # NULL /\ s.name # NULL /\ t.name # s.name
    \/ ArrayToString(t.tags) # ArrayToString(s.tags)
    \/ ~t.owners_null /\ ~s.owners_null /\ t.owners # s.owners
    \/ t.min_owners # s.min_owners
    \/ t.max_owners # s.max_owners
    \/ t.price # s.price
    \/ t.valid_from # s.load_date

\* the OR of the != comparisons is TRUE (a comparison with NULL is not)
Differs(t, s) ==
    \/ t.name # NULL /\ s.name # NULL /\ t.name # s.name
    \/ ArrayToString(t.tags) # ArrayToString(s.tags)
    \/ ~t.owners_null /\ ~s.owners_null /\ t.owners # s.owners
    \/ t.min_owners # s.min_owners
    \/ t.max_owners # s.max_owners
    \/ t.price # s.price

\* a condition that would leave out T.is_active = TRUE
QualifiesWhenClosed(t, s) == Matches(t, s) /\ Differs(t, s)

\* WHEN MATCHED AND T.is_active = TRUE AND (...)
Qualifies(t, s) == Matches(t, s) /\ t.is_active /\ Differs(t, s)

MatchingRows(t, S) == {j \in DOMAIN S : Matches(t, S[j])}

QualifyingRows(t, S) == {j \in DOMAIN S : Qualifies(t, S[j])}

\* "UPDATE/MERGE must match at most one source row for each target row".
\* Whether the engine counts the source rows that join a target row it
\* updates (strict) or only those that also pass the WHEN condition is not
\* settled by the statement; strict is fixed for a behaviour.
MergeRaises(T, S, strictly) ==
    \E i \in DOMAIN T :
        /\ QualifyingRows(T[i], S) # {}
        /\ Cardinality(IF strictly THEN MatchingRows(T[i], S)
                                   ELSE QualifyingRows(T[i], S)) > 1

\* an update that would clear the flag and leave valid_to as it is
ClosedWithoutDate(t, s) == [t EXCEPT !.is_active = FALSE]

\* UPDATE SET T.valid_to = S.load_date, T.is_active = FALSE
Closed(t, s) == [t EXCEPT !.valid_to = s.load_date, !.is_active = FALSE]

UpdatedRows(T, S) ==
    [i \in DOMAIN T |->
        IF QualifyingRows(T[i], S) = {}
        THEN T[i]
        ELSE Closed(T[i], S[CHOOSE j \in QualifyingRows(T[i], S) : TRUE])]

\* WHEN NOT MATCHED THEN INSERT ... VALUES (..., S.load_date, NULL, TRUE)
NotMatched(T, S) ==
    SelectSeq(S, LAMBDA s : \A i \in DOMAIN T : ~Matches(T[i], s))

VersionedRow(s) ==
    [appid |-> s.appid, name |-> s.name, tags |-> s.tags,
     owners_null |-> s.owners_null, owners |-> s.owners,
     min_owners |-> s.min_owners, max_owners |-> s.max_owners,
     price |-> s.price,
     valid_from |-> s.load_date, valid_to |-> NoDate, is_active |-> TRUE]

InsertedRows(T, S) ==
    [j \in DOMAIN NotMatched(T, S) |-> VersionedRow(NotMatched(T, S)[j])]

\* the table after a MERGE that does not raise
MergeResult(T, S) == UpdatedRows(T, S) \o InsertedRows(T, S)

\* the table after the statement, raised or not (a MERGE is atomic)
Merged(T, S, strictly) ==
    IF MergeRaises(T, S, strictly) THEN T ELSE MergeResult(T, S)

(***************************************************************************)
(* State.                                                                  *)
(*   pc              where the current run stands: "idle", "list",         *)
(*                   "validate", "select", "fetch", "load", "merge",       *)
(*                   "failed" (the current task raised)                    *)
(*   task            the task of the run that is executing or has failed   *)
(*   try_number      the attempt of that task                              *)
(*   ds, is_initial_load, max_apps    the parameters of the run            *)
(*   list_ok         whether the listing endpoint answered in this attempt *)
(*   app_ids         the local app_ids of extract_and_upload               *)
(*   batch_state     per batch: "queued", "running", "done", "raised",     *)
(*                   "cancelled" (the futures of executor.map)             *)
(*   batch_results   per batch: what fetch_batch returned                  *)
(*   next_batch      the batch the main loop waits for (i + 1)             *)
(*   loop            "iterating", "ended" (exhausted or break), "raised"   *)
(*   raw_blobs, cleaned_blobs   the bucket, keyed by <<date, number>>      *)
(*   staging, store  the staging table and the versioned table             *)
(*   catalog         the payloads the detail API may serve, per date       *)
(*   strict          how the engine counts source rows (see MergeRaises)   *)
(***************************************************************************)
VARIABLES pc, task, try_number, ds, is_initial_load, max_apps, list_ok,
          app_ids, batch_state, batch_results, next_batch, loop,
          raw_blobs, cleaned_blobs, staging, store, catalog, strict

vars == <<pc, task, try_number, ds, is_initial_load, max_apps, list_ok,
          app_ids, batch_state, batch_results, next_batch, loop,
          raw_blobs, cleaned_blobs, staging, store, catalog, strict>>

run_conf == <<ds, is_initial_load, max_apps>>
extract_locals == <<list_ok, app_ids, batch_state, batch_results, next_batch, loop>>
bucket == <<raw_blobs, cleaned_blobs>>
tables == <<staging, store>>
environment == <<catalog, strict>>

Min(a, b) == IF a < b THEN a ELSE b

Range(f) == {f[k] : k \in DOMAIN f}

SetMax(S) == IF S = {} THEN 0 ELSE CHOOSE x \in S : \A y \in S : y <= x

SortedSeq(S) == SelectSeq([k \in 1..SetMax(S) |-> k], LAMBDA x : x \in S)

Reverse(q) == [k \in 1..Len(q) |-> q[Len(q) + 1 - k]]

\* list(a set of ids): the enumeration order of a set is not specified; the
\* model takes the ascending order rotated to start at pivot, or its reverse
ListOfSet(S, pivot, reversed) ==
    LET q == SortedSeq({x \in S : x >= pivot}) \o SortedSeq({x \in S : x < pivot})
    IN IF reversed THEN Reverse(q) ELSE q

Prefix(q, n) == SubSeq(q, 1, Min(Len(q), n))

EmptyBucket == [k \in {} |-> <<>>]

Upload(blobs, key, content) ==
    [k \in DOMAIN blobs \cup {key} |-> IF k = key THEN content ELSE blobs[k]]

\* the staging table, the versioned table and the bucket are empty before
\* the first run
Init ==
    /\ pc = "idle"
    /\ task = "extract"
    /\ try_number = 1
    /\ ds = 0
    /\ is_initial_load = FALSE
    /\ max_apps = NoMax
    /\ list_ok = TRUE
    /\ app_ids = <<>>
    /\ batch_state = <<>>
    /\ batch_results = <<>>
    /\ next_batch = 1
    /\ loop = "iterating"
    /\ raw_blobs = EmptyBucket
    /\ cleaned_blobs = EmptyBucket
    /\ staging = <<>>
    /\ store = <<>>
    /\ catalog \in Catalogs
    /\ strict \in BOOLEAN

ResetLocals ==
    /\ list_ok' = TRUE
    /\ app_ids' = <<>>
    /\ batch_state' = <<>>
    /\ batch_results' = <<>>
    /\ next_batch' = 1
    /\ loop' = "iterating"

\* the scheduler starts the run of the next date (schedule_interval @daily),
\* with the conf it was triggered with (is_initial_load, max_apps)
StartRun(d, initial, m) ==
    /\ pc = "idle"
    /\ d = ds + 1
    /\ pc' = "list"
    /\ task' = "extract"
    /\ try_number' = 1
    /\ ds' = d
    /\ is_initial_load' = initial
    /\ max_apps' = m
    /\ ResetLocals
    /\ UNCHANGED <<bucket, tables, environment>>

\* fetch_app_list: [app["appid"] for app in apps if app.get("appid")]
AppIdsOf(apps) == SelectSeq(apps, LAMBDA a : a # 0)

FetchAppList(apps) ==
    /\ pc = "list"
    /\ list_ok' = TRUE
    /\ app_ids' = AppIdsOf(apps)
    /\ pc' = "validate"
    /\ UNCHANGED <<task, try_number, run_conf, batch_state, batch_results,
                   next_batch, loop, bucket, tables, environment>>

\* the listing endpoint cannot be reached after the session's retries (or
\* answers with an error status or no JSON): the except branch returns []
FetchAppListFails ==
    /\ pc = "list"
    /\ list_ok' = FALSE
    /\ app_ids' = <<>>
    /\ pc' = "validate"
    /\ UNCHANGED <<task, try_number, run_conf, batch_state, batch_results,
                   next_batch, loop, bucket, tables, environment>>

\* the responses of the detail API to n calls in a row: any response at the
\* first and at the last call, one response at all calls between them
Responses(n) ==
    LET R == Served(catalog, ds) \cup {PError}
    IN { [k \in 1..n |-> IF k = 1 THEN a ELSE IF k = n THEN c ELSE b] :
            a \in R, b \in R, c \in R }

(***************************************************************************)
(* The float arithmetic of validate_app_ids.  A positive float (an IEEE    *)
(* double) is [m, e]: m its 53 significand bits, first bit 1, and          *)
(* the value is the sum of m[i] * 2^(e - i).  Every operation gives the    *)
(* exact result rounded to the nearest float, ties to the even one.        *)
(***************************************************************************)
SignificandBits == 53

RECURSIVE BitsOf(_)
BitsOf(k) == IF k = 0 THEN <<>> ELSE BitsOf(k \div 2) \o <<k % 2>>

RECURSIVE BitsValue(_)
BitsValue(b) ==
    IF b = <<>> THEN 0
    ELSE 2 * BitsValue(SubSeq(b, 1, Len(b) - 1)) + b[Len(b)]

\* bits + 1 for a bit sequence that is not all ones
Increment(bits) ==
    LET p == CHOOSE i \in DOMAIN bits :
                 bits[i] = 0 /\ \A j \in (i + 1)..Len(bits) : bits[j] = 1
    IN [i \in DOMAIN bits |-> IF i < p THEN bits[i] ELSE IF i = p THEN 1 ELSE 0]

\* the float nearest to the number with the bits given (first bit 1, weight
\* of bits[i] 2^(e - i)) plus, when sticky, a positive amount below the
\* weight of the last bit
RoundedUp(kept, e) ==
    IF \A i \in DOMAIN kept : kept[i] = 1
    THEN [m |-> [i \in 1..SignificandBits |-> IF i = 1 THEN 1 ELSE 0], e |-> e + 1]
    ELSE [m |-> Increment(kept), e |-> e]

RoundToFloat(bits, e, sticky) ==
    LET half == Len(bits) > SignificandBits /\ bits[SignificandBits + 1] = 1
        more == sticky \/ \E i \in (SignificandBits + 2)..Len(bits) : bits[i] = 1
        even == Len(bits) < SignificandBits \/ bits[SignificandBits] = 0
    IN IF half /\ (more \/ ~even)
       THEN RoundedUp(SubSeq(bits, 1, SignificandBits), e)
       ELSE [m |-> [i \in 1..SignificandBits |->
                       IF i <= Len(bits) THEN bits[i] ELSE 0],
             e |-> e]

\* the bits of a / b after the binary point, count of them, and whether a
\* remainder is left: <<bits, remainder>> for 0 < a < b
RECURSIVE FractionBits(_, _, _, _)
FractionBits(r, b, count, acc) ==
    IF count = 0 THEN <<acc, r>>
    ELSE FractionBits((2 * r) % b, b, count - 1,
                      Append(acc, IF 2 * r >= b THEN 1 ELSE 0))

\* the position of the first 1 of a bit sequence that has one
FirstOne(bits) ==
    CHOOSE i \in DOMAIN bits : bits[i] = 1 /\ \A j \in 1..(i - 1) : bits[j] = 0

\* the float nearest to the fraction with the bits given after the point
FloatOfFraction(bits, first, sticky) ==
    RoundToFloat(SubSeq(bits, first, Len(bits)), 1 - first, sticky)

FloatOfFractionBits(q) == FloatOfFraction(q[1], FirstOne(q[1]), q[2] # 0)

\* a / b as a float, for integers 0 < a <= b
FloatQuotient(a, b) ==
    IF a = b THEN RoundToFloat(<<1>>, 1, FALSE)
    ELSE FloatOfFractionBits(
             FractionBits(a, b, Len(BitsOf(b)) + SignificandBits + 2, <<>>))

\* the bits of (the integer with the bits m) * k, from the last bit
RECURSIVE TimesBits(_, _, _, _, _)
TimesBits(m, k, i, carry, acc) ==
    IF i = 0 THEN BitsOf(carry) \o acc
    ELSE TimesBits(m, k, i - 1, (m[i] * k + carry) \div 2,
                   <<(m[i] * k + carry) % 2>> \o acc)

FloatOfProduct(product, e) ==
    RoundToFloat(product, e + Len(product) - SignificandBits, FALSE)

\* x * k * 2^shift as a float, for a float x and an integer k > 0
FloatTimes(x, k, shift) ==
    FloatOfProduct(TimesBits(x.m, k, Len(x.m), 0, <<>>), x.e + shift)

\* int(x) of a float x
Truncation(x) == IF x.e <= 0 THEN 0 ELSE BitsValue(SubSeq(x.m, 1, x.e))

\* int(len(app_ids) * success_rate * 1.5), success_rate = valid / sampled
\* if sampled else 0: a float division and two float products
ScaledLength(n, valid, sampled) ==
    IF sampled = 0 \/ valid = 0 \/ n = 0 THEN 0
    ELSE Truncation(FloatTimes(FloatTimes(FloatQuotient(valid, sampled), n, 0),
                               3, -1))

validate_app_ids(ids, responses) ==
    LET sample == Prefix(ids, sample_size)
        valid_ids == {k \in 1..Len(sample) :
                         fetch_app_details(responses[k]) # None}
    IN Prefix(ids, ScaledLength(Len(ids), Cardinality(valid_ids), Len(sample)))

ValidateAppIds(responses) ==
    /\ pc = "validate"
    /\ app_ids' = validate_app_ids(app_ids, responses)
    /\ pc' = "select"
    /\ UNCHANGED <<task, try_number, run_conf, list_ok, batch_state,
                   batch_results, next_batch, loop, bucket, tables, environment>>

\* SELECT DISTINCT appid FROM the versioned table
processed_ids == {store[k].appid : k \in DOMAIN store}

\* int(len(processed_ids) * sample_fraction)
SampleCount(n) == (n * sample_percent) \div 100

\* a selection that would sample all of processed_ids, not only those among
\* the candidates
IncrementalIdsOfAllProcessed(ids, processed, pivot, reversed) ==
    LET sampled_ids == Prefix(ListOfSet(processed, pivot, reversed),
                              SampleCount(Cardinality(processed)))
        new_ids == ListOfSet(Range(ids) \ processed, pivot, reversed)
    IN new_ids \o sampled_ids

\* the incremental selection of extract_and_upload
IncrementalIds(ids, processed, pivot, reversed) ==
    LET sampled_ids == Prefix(ListOfSet(processed \cap Range(ids), pivot, reversed),
                              SampleCount(Cardinality(processed)))
        new_ids == ListOfSet(Range(ids) \ processed, pivot, reversed)
    IN new_ids \o sampled_ids

\* if max_apps: app_ids = app_ids[:max_apps]
Truncated(ids, m) == IF m # NoMax /\ m # 0 THEN Prefix(ids, m) ELSE ids

WorkSet(ids, initial, m, processed, pivot, reversed) ==
    Truncated(IF initial THEN ids
              ELSE IncrementalIds(ids, processed, pivot, reversed), m)

NumBatches(ids) == (Len(ids) + batch_size - 1) \div batch_size

\* batches = [app_ids[i:i+batch_size] for i in range(0, len(app_ids), batch_size)]
Batch(ids, j) ==
    SubSeq(ids, (j - 1) * batch_size + 1, Min(Len(ids), j * batch_size))

SelectWorkSet(pivot, reversed) ==
    /\ pc = "select"
    /\ app_ids' = WorkSet(app_ids, is_initial_load, max_apps, processed_ids,
                          pivot, reversed)
    /\ batch_state' = [j \in 1..NumBatches(app_ids') |-> "queued"]
    /\ batch_results' = [j \in 1..NumBatches(app_ids') |-> <<>>]
    /\ next_batch' = 1
    /\ loop' = "iterating"
    /\ pc' = "fetch"
    /\ UNCHANGED <<task, try_number, run_conf, list_ok, bucket, tables, environment>>

(***************************************************************************)
(* The thread pool of extract_and_upload: executor.map submits every       *)
(* batch, max_workers threads take them in order, the main loop consumes   *)
(* the results in order.                                                   *)
(***************************************************************************)
Running == {j \in DOMAIN batch_state : batch_state[j] = "running"}

\* a pool that would start a batch whatever the number of running ones
StartBatchAtOnce(j) ==
    /\ pc = "fetch"
    /\ j \in DOMAIN batch_state
    /\ batch_state[j] = "queued"
    /\ \A k \in 1..(j - 1) : batch_state[k] # "queued"
    /\ batch_state' = [batch_state EXCEPT ![j] = "running"]
    /\ UNCHANGED <<pc, task, try_number, run_conf, list_ok, app_ids,
                   batch_results, next_batch, loop, bucket, tables, environment>>

\* a free worker thread takes the oldest queued batch
StartBatch(j) ==
    /\ pc = "fetch"
    /\ j \in DOMAIN batch_state
    /\ batch_state[j] = "queued"
    /\ \A k \in 1..(j - 1) : batch_state[k] # "queued"
    /\ Cardinality(Running) < max_workers
    /\ batch_state' = [batch_state EXCEPT ![j] = "running"]
    /\ UNCHANGED <<pc, task, try_number, run_conf, list_ok, app_ids,
                   batch_results, next_batch, loop, bucket, tables, environment>>

\* fetch_batch raises at the first usable payload it cannot transform
FetchBatchRaises(responses) ==
    \E response \in Range(responses) :
        /\ fetch_app_details(response) # None
        /\ TransformRaises(fetch_app_details(response))

\* the cleaned record of every usable payload among the responses, as pairs
\* <<payload, record>>; the record of an id is the one of its payload with
\* the id of the batch as appid
CleanedByPayload(responses, execution_date, order) ==
    { <<fetch_app_details(response),
        CleanedRecord(response.appid, fetch_app_details(response),
                      execution_date, order)>> :
          response \in {x \in Range(responses) : fetch_app_details(x) # None} }

\* the positions of the batch whose payload is usable (if not app_data:
\* continue skips the others)
UsablePositions(responses) ==
    SelectSeq([k \in 1..Len(responses) |-> k],
              LAMBDA k : fetch_app_details(responses[k]) # None)

\* the results the loop of fetch_batch appends, one per usable position
ResultsAt(app_ids_batch, responses, execution_date, cleaned, usable) ==
    [r \in 1..Len(usable) |->
        [raw |-> RawRecord(app_ids_batch[usable[r]],
                           fetch_app_details(responses[usable[r]]),
                           execution_date),
         cleaned |-> [(CHOOSE c \in cleaned :
                          c[1] = fetch_app_details(responses[usable[r]]))[2]
                      EXCEPT !.appid = app_ids_batch[usable[r]]]]]

fetch_batch(app_ids_batch, responses, execution_date, order) ==
    ResultsAt(app_ids_batch, responses, execution_date,
              CleanedByPayload(responses, execution_date, order),
              UsablePositions(responses))

\* a worker thread runs fetch_batch on its batch to the end
FinishBatch(j, responses, order) ==
    /\ pc = "fetch"
    /\ j \in DOMAIN batch_state
    /\ batch_state[j] = "running"
    /\ IF FetchBatchRaises(responses)
       THEN /\ batch_state' = [batch_state EXCEPT ![j] = "raised"]
            /\ UNCHANGED batch_results
       ELSE /\ batch_state' = [batch_state EXCEPT ![j] = "done"]
            /\ batch_results' =
                   [batch_results EXCEPT ![j] = fetch_batch(Batch(app_ids, j),
                                                            responses, ds, order)]
    /\ UNCHANGED <<pc, task, try_number, run_conf, list_ok, app_ids,
                   next_batch, loop, bucket, tables, environment>>

\* closing the iterator of executor.map cancels the futures not yet started
CancelQueued(states) ==
    [j \in DOMAIN states |-> IF states[j] = "queued" THEN "cancelled" ELSE states[j]]

RawData(results) == [r \in DOMAIN results |-> results[r].raw]

CleanedData(results) == [r \in DOMAIN results |-> results[r].cleaned]

\* one iteration of the main loop on the results of batch next_batch:
\* break when there are none, otherwise upload the raw and the cleaned blob
ConsumeBatch ==
    /\ pc = "fetch"
    /\ loop = "iterating"
    /\ next_batch \in DOMAIN batch_state
    /\ batch_state[next_batch] = "done"
    /\ IF batch_results[next_batch] = <<>>
       THEN /\ loop' = "ended"
            /\ batch_state' = CancelQueued(batch_state)
            /\ UNCHANGED <<next_batch, bucket>>
       ELSE /\ raw_blobs' = Upload(raw_blobs, <<ds, next_batch>>,
                                   RawData(batch_results[next_batch]))
            /\ cleaned_blobs' = Upload(cleaned_blobs, <<ds, next_batch>>,
                                       CleanedData(batch_results[next_batch]))
            /\ next_batch' = next_batch + 1
            /\ loop' = IF next_batch = Len(batch_state) THEN "ended" ELSE "iterating"
            /\ UNCHANGED batch_state
    /\ UNCHANGED <<pc, task, try_number, run_conf, list_ok, app_ids,
                   batch_results, tables, environment>>

\* there is no batch at all: the loop body never runs
NoBatches ==
    /\ pc = "fetch"
    /\ loop = "iterating"
    /\ batch_state = <<>>
    /\ loop' = "ended"
    /\ UNCHANGED <<pc, task, try_number, run_conf, list_ok, app_ids, batch_state,
                   batch_results, next_batch, bucket, tables, environment>>

\* the result of batch next_batch is the exception fetch_batch raised
ResultRaises ==
    /\ pc = "fetch"
    /\ loop = "iterating"
    /\ next_batch \in DOMAIN batch_state
    /\ batch_state[next_batch] = "raised"
    /\ loop' = "raised"
    /\ batch_state' = CancelQueued(batch_state)
    /\ UNCHANGED <<pc, task, try_number, run_conf, list_ok, app_ids,
                   batch_results, next_batch, bucket, tables, environment>>

\* a failed upload that would remove the blobs the run has written
UploadFailsRollingBack(cleaned_one) ==
    /\ pc = "fetch"
    /\ loop = "iterating"
    /\ next_batch \in DOMAIN batch_state
    /\ batch_state[next_batch] = "done"
    /\ batch_results[next_batch] # <<>>
    /\ raw_blobs' = EmptyBucket
    /\ cleaned_blobs' = EmptyBucket
    /\ loop' = "raised"
    /\ batch_state' = CancelQueued(batch_state)
    /\ UNCHANGED <<pc, task, try_number, run_conf, list_ok, app_ids,
                   batch_results, next_batch, tables, environment>>

\* an upload of batch next_batch raises: the raw one (nothing is written) or
\* the cleaned one (the raw blob is written)
UploadFails(cleaned_one) ==
    /\ pc = "fetch"
    /\ loop = "iterating"
    /\ next_batch \in DOMAIN batch_state
    /\ batch_state[next_batch] = "done"
    /\ batch_results[next_batch] # <<>>
    /\ raw_blobs' = IF cleaned_one
                    THEN Upload(raw_blobs, <<ds, next_batch>>,
                                RawData(batch_results[next_batch]))
                    ELSE raw_blobs
    /\ loop' = "raised"
    /\ batch_state' = CancelQueued(batch_state)
    /\ UNCHANGED <<pc, task, try_number, run_conf, list_ok, app_ids,
                   batch_results, next_batch, cleaned_blobs, tables, environment>>

\* the with block waits for the running batches; extract_and_upload then
\* returns and the load task starts
ExtractReturns ==
    /\ pc = "fetch"
    /\ loop = "ended"
    /\ Running = {}
    /\ pc' = "load"
    /\ task' = "load"
    /\ try_number' = 1
    /\ ResetLocals
    /\ UNCHANGED <<run_conf, bucket, tables, environment>>

\* ... or the exception leaves extract_and_upload
ExtractRaises ==
    /\ pc = "fetch"
    /\ loop = "raised"
    /\ Running = {}
    /\ pc' = "failed"
    /\ ResetLocals
    /\ UNCHANGED <<task, try_number, run_conf, bucket, tables, environment>>

(***************************************************************************)
(* load_cleaned_task and apply_scd_merge.                                  *)
(***************************************************************************)
RECURSIVE BlobRows(_, _, _)
BlobRows(blobs, d, j) ==
    IF j = 0 THEN <<>>
    ELSE BlobRows(blobs, d, j - 1)
         \o (IF <<d, j>> \in DOMAIN blobs THEN blobs[<<d, j>>] ELSE <<>>)

\* the rows of the objects processed/steam_games_cleaned_{d}*.json
SourceObjects(blobs, d) ==
    BlobRows(blobs, d, SetMax({k[2] : k \in {x \in DOMAIN blobs : x[1] = d}}))

\* WRITE_APPEND of the matching objects to the staging table
Load ==
    /\ pc = "load"
    /\ staging' = staging \o SourceObjects(cleaned_blobs, ds)
    /\ pc' = "merge"
    /\ task' = "merge"
    /\ try_number' = 1
    /\ UNCHANGED <<run_conf, extract_locals, bucket, store, environment>>

\* the load job fails (no object matches, or the service fails)
LoadFails ==
    /\ pc = "load"
    /\ pc' = "failed"
    /\ UNCHANGED <<task, try_number, run_conf, extract_locals, bucket, tables,
                   environment>>

\* the run is over: no task, no conf
EndRun ==
    /\ pc' = "idle"
    /\ task' = "extract"
    /\ try_number' = 1
    /\ is_initial_load' = FALSE
    /\ max_apps' = NoMax
    /\ UNCHANGED <<ds, extract_locals, bucket, environment>>

ApplyScdMerge ==
    /\ pc = "merge"
    /\ store' = Merged(store, staging, strict)
    /\ IF MergeRaises(store, staging, strict)
       THEN /\ pc' = "failed"
            /\ UNCHANGED <<task, try_number, run_conf, extract_locals, bucket,
                           environment>>
       ELSE EndRun
    /\ UNCHANGED staging

\* the query job fails without running the statement
MergeFails ==
    /\ pc = "merge"
    /\ pc' = "failed"
    /\ UNCHANGED <<task, try_number, run_conf, extract_locals, bucket, tables,
                   environment>>

(***************************************************************************)
(* default_args: a failed task is retried, retries times.                  *)
(***************************************************************************)
Retry ==
    /\ pc = "failed"
    /\ try_number <= retries
    /\ try_number' = try_number + 1
    /\ pc' = IF task = "extract" THEN "list" ELSE task
    /\ UNCHANGED <<task, run_conf, extract_locals, bucket, tables, environment>>

GiveUp ==
    /\ pc = "failed"
    /\ try_number > retries
    /\ EndRun
    /\ UNCHANGED tables

Listings ==
    UNION {[1..n -> 0..MaxAppId] : n \in 0..MaxListLen}

MaxAppsValues == {NoMax, 1}

Next ==
    \/ \E d \in Dates, initial \in BOOLEAN, m \in MaxAppsValues :
          StartRun(d, initial, m)
    \/ \E apps \in Listings : FetchAppList(apps)
    \/ FetchAppListFails
    \/ \E responses \in Responses(Min(Len(app_ids), sample_size)) :
          ValidateAppIds(responses)
    \/ \E pivot \in AppIds, reversed \in BOOLEAN : SelectWorkSet(pivot, reversed)
    \/ \E j \in DOMAIN batch_state : StartBatch(j)
    \/ \E j \in DOMAIN batch_state, order \in TagOrders :
          \E responses \in Responses(Len(Batch(app_ids, j))) :
              FinishBatch(j, responses, order)
    \/ ConsumeBatch
    \/ NoBatches
    \/ ResultRaises
    \/ UploadFails(FALSE)
    \/ ExtractReturns
    \/ ExtractRaises
    \/ Load
    \/ LoadFails
    \/ ApplyScdMerge
    \/ MergeFails
    \/ Retry
    \/ GiveUp

Spec == Init /\ [][Next]_vars

(***************************************************************************)
(* One attempt of extract_and_upload on a large catalogue, from the state  *)
(* after validate_app_ids: ids 1..n are in the versioned table (loaded on  *)
(* date 1), the validated candidates are none or the ids lo..hi, once with *)
(* the first id listed a second time at the end.  The detail API serves    *)
(* payloads without tags, so one enumeration order of the tags is enough.  *)
(***************************************************************************)
FromTo(lo, hi) == [k \in 1..(hi - lo + 1) |-> lo + k - 1]

SeenSizes == {0, 100, MaxSeen}

SomeOrder == CHOOSE o \in TagOrders : TRUE

SeenRecords(n) == [k \in 1..n |-> CleanedRecord(k, PBase, 1, SomeOrder)]

SeenStore(n) == [k \in 1..n |-> VersionedRow(SeenRecords(n)[k])]

Candidates ==
    { <<>>,
      FromTo(1, MaxSeen + 1),
      FromTo(MidId, MaxCand),
      Append(FromTo(MidId, MaxCand), MidId) }

ExtractCatalogs == { <<{PBase}>>, <<{PNullOwners}>> }

InitExtract ==
    /\ pc = "select"
    /\ task = "extract"
    /\ try_number = 1
    /\ ds = 2
    /\ is_initial_load \in BOOLEAN
    /\ max_apps = NoMax
    /\ list_ok = TRUE
    /\ app_ids \in Candidates
    /\ batch_state = <<>>
    /\ batch_results = <<>>
    /\ next_batch = 1
    /\ loop = "iterating"
    /\ raw_blobs = EmptyBucket
    /\ cleaned_blobs = EmptyBucket
    /\ \E n \in SeenSizes : staging = SeenRecords(n) /\ store = SeenStore(n)
    /\ catalog \in ExtractCatalogs
    /\ strict = FALSE

NextExtract ==
    \/ \E pivot \in {1, MidId}, reversed \in BOOLEAN : SelectWorkSet(pivot, reversed)
    \/ \E j \in DOMAIN batch_state : StartBatch(j)
    \/ \E j \in DOMAIN batch_state :
          \E responses \in Responses(Len(Batch(app_ids, j))) :
              FinishBatch(j, responses, SomeOrder)
    \/ ConsumeBatch
    \/ NoBatches
    \/ ResultRaises
    \/ \E cleaned_one \in BOOLEAN : UploadFails(cleaned_one)
    \/ ExtractReturns
    \/ ExtractRaises

SpecExtract == InitExtract /\ [][NextExtract]_vars


(***************************************************************************)
(* validate_app_ids and the selection on short listings: one attempt of    *)
(* extract_and_upload from the call of validate_app_ids on, with the conf  *)
(* values of max_apps, none of the calls failing but the detail fetches.   *)
(***************************************************************************)
ValidateLens == {0, 1, MaxValidate}

ConfMaxApps == {NoMax, 0, 1, 2}

InitValidate ==
    /\ pc = "validate"
    /\ task = "extract"
    /\ try_number = 1
    /\ ds = 2
    /\ is_initial_load \in BOOLEAN
    /\ max_apps \in ConfMaxApps
    /\ list_ok = TRUE
    /\ \E n \in ValidateLens : app_ids = FromTo(1, n)
    /\ batch_state = <<>>
    /\ batch_results = <<>>
    /\ next_batch = 1
    /\ loop = "iterating"
    /\ raw_blobs = EmptyBucket
    /\ cleaned_blobs = EmptyBucket
    /\ \E n \in {0, 2} : staging = SeenRecords(n) /\ store = SeenStore(n)
    /\ catalog = <<{PBase}>>
    /\ strict = FALSE

NextValidate ==
    \/ \E responses \in Responses(Min(Len(app_ids), sample_size)) :
          ValidateAppIds(responses)
    \/ \E reversed \in BOOLEAN : SelectWorkSet(1, reversed)
    \/ \E j \in DOMAIN batch_state : StartBatch(j)
    \/ \E j \in DOMAIN batch_state :
          \E responses \in Responses(Len(Batch(app_ids, j))) :
              FinishBatch(j, responses, SomeOrder)
    \/ ConsumeBatch
    \/ NoBatches
    \/ ExtractReturns

SpecValidate == InitValidate /\ [][NextValidate]_vars

(***************************************************************************)
(* The thread pool on a work set of more batches than workers: an initial  *)
(* load of the ids 1..MaxWork, the detail API answering all calls of a     *)
(* batch alike.                                                            *)
(***************************************************************************)
UniformResponses(n) ==
    {[k \in 1..n |-> a] : a \in Served(catalog, ds) \cup {PError}}

InitBatches ==
    /\ pc = "select"
    /\ task = "extract"
    /\ try_number = 1
    /\ ds = 1
    /\ is_initial_load = TRUE
    /\ max_apps = NoMax
    /\ list_ok = TRUE
    /\ app_ids \in {FromTo(1, MaxWork), FromTo(1, MaxWork - 1)}
    /\ batch_state = <<>>
    /\ batch_results = <<>>
    /\ next_batch = 1
    /\ loop = "iterating"
    /\ raw_blobs = EmptyBucket
    /\ cleaned_blobs = EmptyBucket
    /\ staging = <<>>
    /\ store = <<>>
    /\ catalog = <<{PBase}>>
    /\ strict = FALSE

NextBatches ==
    \/ SelectWorkSet(1, FALSE)
    \/ \E j \in DOMAIN batch_state : StartBatch(j)
    \/ \E j \in DOMAIN batch_state :
          \E responses \in UniformResponses(Len(Batch(app_ids, j))) :
              FinishBatch(j, responses, SomeOrder)
    \/ ConsumeBatch
    \/ ExtractReturns

SpecBatches == InitBatches /\ [][NextBatches]_vars

(***************************************************************************)
(* The owners field as the detail API writes it: a count in decimal with   *)
(* thousands separators, or two of them around " .. ".  One initial load   *)
(* of one or two ids whose payloads carry such a string.                   *)
(***************************************************************************)
RECURSIVE DecimalOf(_)
DecimalOf(n) ==
    IF n < 10 THEN <<Digits[n + 1]>>
    ELSE DecimalOf(n \div 10) \o <<Digits[(n % 10) + 1]>>

RECURSIVE GroupedFrom(_, _)
GroupedFrom(d, i) ==
    IF i > Len(d) THEN <<>>
    ELSE (IF i > 1 /\ (Len(d) - i + 1) % 3 = 0 THEN <<",", d[i]>> ELSE <<d[i]>>)
         \o GroupedFrom(d, i + 1)

\* 20000 as "20,000"
Grouped(n) == GroupedFrom(DecimalOf(n), 1)

OwnerCounts == {0, 20, 20000, 50000, 2000000}

OwnersOfRange(lo, hi) == Grouped(lo) \o RangeSep \o Grouped(hi)

OwnersStrings ==
    {Grouped(n) : n \in OwnerCounts}
        \cup {OwnersOfRange(lo, hi) : lo \in OwnerCounts, hi \in OwnerCounts}

InitOwners ==
    /\ pc = "select"
    /\ task = "extract"
    /\ try_number = 1
    /\ ds = 1
    /\ is_initial_load = TRUE
    /\ max_apps = NoMax
    /\ list_ok = TRUE
    /\ app_ids \in {<<1>>, <<1, 2>>}
    /\ batch_state = <<>>
    /\ batch_results = <<>>
    /\ next_batch = 1
    /\ loop = "iterating"
    /\ raw_blobs = EmptyBucket
    /\ cleaned_blobs = EmptyBucket
    /\ staging = <<>>
    /\ store = <<>>
    /\ \E owners \in OwnersStrings : catalog = <<{[PBase EXCEPT !.owners = owners]}>>
    /\ strict = FALSE

NextOwners ==
    \/ SelectWorkSet(1, FALSE)
    \/ \E j \in DOMAIN batch_state : StartBatch(j)
    \/ \E j \in DOMAIN batch_state :
          \E responses \in Responses(Len(Batch(app_ids, j))) :
              FinishBatch(j, responses, SomeOrder)
    \/ ConsumeBatch
    \/ ExtractReturns

SpecOwners == InitOwners /\ [][NextOwners]_vars

(***************************************************************************)
(* The MERGE statement on its own: the merge task of the run of date       *)
(* MaxDate + 1, after runs on two earlier dates.  Each run fetched at most *)
(* one record per id; the versioned table is what the two earlier merges   *)
(* made of the empty table.  The staging table is as the load task leaves  *)
(* it, or holds the records of each run alone (the statement takes         *)
(* whatever the table holds, also one emptied between the runs).           *)
(***************************************************************************)
MergePayloads == {PBase, PCheaper, PNoName}

\* the listings of distinct ids
DistinctListings ==
    {ids \in Listings : /\ \A k \in DOMAIN ids : ids[k] \in AppIds
                        /\ \A j, k \in DOMAIN ids : j # k => ids[j] # ids[k]}

\* what fetch_batch may return on date d
DayResults(d) ==
    UNION { { fetch_batch(ids, responses, d, SomeOrder) :
                responses \in [DOMAIN ids -> MergePayloads] } :
            ids \in DistinctListings }

BlobOf(d, data) ==
    IF data = <<>> THEN EmptyBucket ELSE [k \in {<<d, 1>>} |-> data]

InitMerge ==
    /\ pc = "merge"
    /\ task = "merge"
    /\ try_number = 1
    /\ ds = MaxDate + 1
    /\ is_initial_load = FALSE
    /\ max_apps = NoMax
    /\ list_ok = TRUE
    /\ app_ids = <<>>
    /\ batch_state = <<>>
    /\ batch_results = <<>>
    /\ next_batch = 1
    /\ loop = "iterating"
    /\ catalog = <<MergePayloads>>
    /\ strict \in BOOLEAN
    /\ \E R1 \in DayResults(ds - 2), R2 \in DayResults(ds - 1), R3 \in DayResults(ds) :
       \E emptied \in BOOLEAN :
          LET B1 == CleanedData(R1)
              B2 == CleanedData(R2)
              B3 == CleanedData(R3)
              second == IF emptied THEN B2 ELSE B1 \o B2
          IN /\ raw_blobs = BlobOf(ds - 2, RawData(R1)) @@ BlobOf(ds - 1, RawData(R2))
                                @@ BlobOf(ds, RawData(R3))
             /\ cleaned_blobs = BlobOf(ds - 2, B1) @@ BlobOf(ds - 1, B2) @@ BlobOf(ds, B3)
             /\ store = Merged(Merged(<<>>, B1, strict), second, strict)
             /\ staging = IF emptied THEN B3 ELSE B1 \o B2 \o B3

NextMerge ==
    \/ ApplyScdMerge
    \/ MergeFails
    \/ Retry
    \/ GiveUp

SpecMerge == InitMerge /\ [][NextMerge]_vars

(***************************************************************************)
(* Vocabulary of the claims.                                               *)
(***************************************************************************)
\* the fields the change detection compares (all but the dates and the flag)
ComparableFields(r) ==
    <<r.name, r.tags, r.owners_null, r.owners, r.min_owners, r.max_owners, r.price>>

StagedOf(a) == {j \in DOMAIN staging : staging[j].appid = a}

EntriesOf(T, a) == {i \in DOMAIN T : T[i].appid = a}

ActiveOf(T, a) == {i \in EntriesOf(T, a) : T[i].is_active}

\* the rows a step adds to the versioned table
NewEntries == (DOMAIN store') \ (DOMAIN store)

\* a step in which the MERGE statement ran to its end
MergeCompletes == pc = "merge" /\ pc' = "idle"

\* a step of the merge task, completed or not
MergeStep == pc = "merge" /\ pc' # "merge"

\* C1: for every staged record S whose id has an active entry T differing
\* from S in a comparable field, the merge closes T (valid_to = S.load_date,
\* is_active = FALSE) and inserts an active entry with S's fields,
\* valid_from = S.load_date and no valid_to.
C1_ChangeClosesAndInserts ==
    [][MergeCompletes =>
        \A j \in DOMAIN staging : \A i \in ActiveOf(store, staging[j].appid) :
            ComparableFields(store[i]) # ComparableFields(staging[j]) =>
                /\ store'[i] = Closed(store[i], staging[j])
                /\ \E k \in NewEntries : store'[k] = VersionedRow(staging[j])]_vars

\* C2: no id has more than one active versioned entry, in any state any
\* sequence of runs, failed and retried ones included, can reach.
C2_AtMostOneActive ==
    \A a \in AppIds : Cardinality(ActiveOf(store, a)) <= 1

\* C3: applying the merge a second time to the same staging table leaves
\* the versioned table as the first application left it.
C3_MergeIdempotent ==
    pc = "merge" =>
        Merged(Merged(store, staging, strict), staging, strict)
            = Merged(store, staging, strict)

\* C4: when every staged record of an id has the comparable fields of the
\* id's active entry, the merge changes no row of that id and adds none.
C4_UnchangedIsNoOp ==
    [][MergeStep =>
        \A a \in AppIds :
            ( /\ ActiveOf(store, a) # {}
              /\ StagedOf(a) # {}
              /\ \A i \in ActiveOf(store, a) : \A j \in StagedOf(a) :
                    ComparableFields(store[i]) = ComparableFields(staging[j]) )
            => /\ \A i \in EntriesOf(store, a) : store'[i] = store[i]
               /\ \A k \in NewEntries : store'[k].appid # a]_vars

\* a merge of date 2 ran to its end (it inserted id 2) while the record
\* staged on date 2 for id 1 had the fields of the active entry of id 1
C4_Witness ==
    /\ \E k \in DOMAIN store : store[k].appid = 2 /\ store[k].valid_from = 2
    /\ \E i \in ActiveOf(store, 1) : \E j \in StagedOf(1) :
          /\ store[i].valid_from = 1
          /\ staging[j].load_date = 2
          /\ ComparableFields(store[i]) = ComparableFields(staging[j])

\* C5: for an id with staged records and no versioned entry, the merge adds
\* exactly one entry: active, valid_from the load date of a staged record of
\* the id, valid_to absent; the rows of ids without a staged record stay.
C5_NewIdInsertsOne ==
    [][MergeCompletes =>
        /\ \A a \in AppIds :
              (StagedOf(a) # {} /\ EntriesOf(store, a) = {}) =>
                  /\ Cardinality(EntriesOf(store', a)) = 1
                  /\ \A k \in EntriesOf(store', a) : \E j \in StagedOf(a) :
                        store'[k] = VersionedRow(staging[j])
        /\ \A i \in DOMAIN store :
              StagedOf(store[i].appid) = {} => store'[i] = store[i]]_vars

\* C6: a selection step of a run that is not an initial load and has no
\* max_apps yields a work set that holds every candidate id that is not
\* already processed, whose other ids are candidates that are processed and
\* number at most ceil(0.01 * |processed_ids|), and that lists no id twice.
C6_IncrementalSelection ==
    [][(pc = "select" /\ pc' = "fetch" /\ ~is_initial_load /\ max_apps = NoMax) =>
        LET new == Range(app_ids) \ processed_ids
            rechecked == Range(app_ids') \ new
        IN /\ new \subseteq Range(app_ids')
           /\ rechecked \subseteq Range(app_ids) \cap processed_ids
           /\ Cardinality(rechecked) * 100
                 <= Cardinality(processed_ids) * sample_percent + 99
           /\ Cardinality(Range(app_ids')) = Len(app_ids')]_vars

\* the work set just selected by a run that is not an initial load holds
\* an id that is new and an id that is re-checked
C6_Witness ==
    /\ pc = "fetch"
    /\ ~is_initial_load
    /\ max_apps = NoMax
    /\ next_batch = 1
    /\ \A j \in DOMAIN batch_state : batch_state[j] = "queued"
    /\ \E k \in DOMAIN app_ids : app_ids[k] \in processed_ids
    /\ \E k \in DOMAIN app_ids : app_ids[k] \notin processed_ids

\* C7: when extract_and_upload is about to return, no batch was left
\* unfetched, and every batch whose fetches gave usable payloads has its
\* raw and its cleaned blob, with a record for each of these payloads.
C7_FetchFailureConfined ==
    (pc = "fetch" /\ loop = "ended" /\ Running = {}) =>
        \A j \in DOMAIN batch_state :
            /\ batch_state[j] # "cancelled"
            /\ (batch_state[j] = "done" /\ batch_results[j] # <<>>) =>
                  /\ <<ds, j>> \in DOMAIN raw_blobs
                  /\ <<ds, j>> \in DOMAIN cleaned_blobs
                  /\ raw_blobs[<<ds, j>>] = RawData(batch_results[j])
                  /\ cleaned_blobs[<<ds, j>>] = CleanedData(batch_results[j])

\* C8: when the listing endpoint could not be reached, the run has failed:
\* it is not validating, selecting or fetching with an empty id list.
C8_ListingFailureFailsRun ==
    ~list_ok => pc = "failed"

\* C9: fetch_batch never raises on a payload, whatever its fields hold: no
\* batch ends with an exception.
C9_MalformedFieldNeverRaises ==
    \A j \in DOMAIN batch_state : batch_state[j] # "raised"

\* C10: the cleaned blobs written for one run date hold no two records with
\* the same id.
C10_StagedIdsDistinct ==
    \A k1 \in DOMAIN cleaned_blobs : \A k2 \in DOMAIN cleaned_blobs :
        k1[1] = k2[1] =>
            \A r1 \in DOMAIN cleaned_blobs[k1] : \A r2 \in DOMAIN cleaned_blobs[k2] :
                cleaned_blobs[k1][r1].appid = cleaned_blobs[k2][r2].appid
                    => (k1 = k2 /\ r1 = r2)

\* C11: when the merge of a run starts, the staging table holds only the
\* records staged by that run: every row has the run's date as load_date.
C11_StagingConsumedOnce ==
    pc = "merge" => \A j \in DOMAIN staging : staging[j].load_date = ds

\* C12: every row of the versioned table has valid_to NULL exactly when it
\* is active.
C12_ValidToAbsentIffActive ==
    \A i \in DOMAIN store : (store[i].valid_to = NoDate) <=> store[i].is_active

\* the versioned table holds a row the merge has closed and an active row
C12_Witness ==
    /\ \E i \in DOMAIN store : ~store[i].is_active /\ store[i].valid_to # NoDate
    /\ \E i \in DOMAIN store : store[i].is_active

\* C13: no step removes a row of the versioned table; a step leaves a row
\* as it is or closes an active row (valid_to set, is_active FALSE, every
\* other field kept), so a closed row never changes again.
C13_EntriesOnlyClosed ==
    [][/\ Len(store') >= Len(store)
       /\ \A i \in DOMAIN store :
             \/ store'[i] = store[i]
             \/ /\ store[i].is_active
                /\ store'[i].valid_to # NoDate
                /\ store'[i] = [store[i] EXCEPT !.valid_to = store'[i].valid_to,
                                                !.is_active = FALSE]]_vars

\* the merge of the last date has closed a row, next to a row closed on an
\* earlier date
C13_Witness ==
    /\ pc = "idle"
    /\ \E i \in DOMAIN store : ~store[i].is_active /\ store[i].valid_to = ds
    /\ \E i \in DOMAIN store : ~store[i].is_active /\ store[i].valid_to < ds

\* the rows of a table, with the number of times each occurs
RowsBag(T) == [r \in Range(T) |-> Cardinality({i \in DOMAIN T : T[i] = r})]

DistinctIds(S) == \A j, k \in DOMAIN S : j # k => S[j].appid # S[k].appid

OfIds(S, A) == SelectSeq(S, LAMBDA r : r.appid \in A)

\* C20: when the staging table holds no id twice, merging it as a whole,
\* or the records of some ids first and those of the other ids second, in
\* either order, gives the same rows; and the rows of an id are those a
\* merge of the id's staged records alone gives.
C20_MergeOrderIndependent ==
    (pc = "merge" /\ DistinctIds(staging)) =>
        \A A \in SUBSET AppIds :
            LET B1 == OfIds(staging, A)
                B2 == OfIds(staging, AppIds \ A)
                whole == Merged(store, staging, strict)
            IN /\ RowsBag(Merged(Merged(store, B1, strict), B2, strict))
                     = RowsBag(whole)
               /\ RowsBag(OfIds(Merged(store, B1, strict), A))
                     = RowsBag(OfIds(whole, A))

\* a merge is due on a staging table with records of two ids, one of them
\* new and one changed since its active row was inserted
C20_Witness ==
    /\ pc = "merge"
    /\ DistinctIds(staging)
    /\ Len(staging) = 2
    /\ \E j \in DOMAIN staging : EntriesOf(store, staging[j].appid) = {}
    /\ \E j \in DOMAIN staging : \E i \in ActiveOf(store, staging[j].appid) :
          ComparableFields(store[i]) # ComparableFields(staging[j])

\* C14: the step in which an upload (or a batch) raises leaves every blob
\* written before in place and unchanged and writes at most the raw blob
\* of the batch at hand; after it no blob is written, and the only way out
\* of extract_and_upload is the failure of the task.
C14_WriteFailureEndsRun ==
    [][/\ (pc = "fetch" /\ loop # "raised" /\ loop' = "raised") =>
             /\ cleaned_blobs' = cleaned_blobs
             /\ DOMAIN raw_blobs \subseteq DOMAIN raw_blobs'
             /\ DOMAIN raw_blobs' \subseteq DOMAIN raw_blobs \cup {<<ds, next_batch>>}
             /\ \A k \in DOMAIN raw_blobs :
                   k # <<ds, next_batch>> => raw_blobs'[k] = raw_blobs[k]
       /\ (pc = "fetch" /\ loop = "raised") =>
             /\ UNCHANGED bucket
             /\ pc' \in {"fetch", "failed"}
             /\ pc' = "fetch" => loop' = "raised"]_vars

\* the task has failed at the cleaned upload of the second batch: the blobs
\* of the first batch and the raw blob of the second are there
C14_Witness ==
    /\ pc = "failed"
    /\ task = "extract"
    /\ <<ds, 1>> \in DOMAIN cleaned_blobs
    /\ <<ds, 1>> \in DOMAIN raw_blobs
    /\ <<ds, 2>> \in DOMAIN raw_blobs
    /\ <<ds, 2>> \notin DOMAIN cleaned_blobs

\* C15: whatever the sampled fetches return, validate_app_ids returns the
\* prefix of its input of length min(len, floor(len * successes / attempts
\* * 1.5)), attempts being min(sample_size, len) and successes the number
\* of sampled ids with a usable payload; the empty list when there is no
\* success.
C15_ValidatePrefix ==
    pc = "validate" =>
        \A responses \in Responses(Min(Len(app_ids), sample_size)) :
            LET attempts == Min(Len(app_ids), sample_size)
                successes == Cardinality({k \in 1..attempts :
                                 fetch_app_details(responses[k]) # None})
                floor == IF attempts = 0 THEN 0
                         ELSE (Len(app_ids) * successes * 3) \div (attempts * 2)
            IN /\ validate_app_ids(app_ids, responses)
                     = Prefix(app_ids, Min(Len(app_ids), floor))
               /\ successes = 0 => validate_app_ids(app_ids, responses) = <<>>

\* C16: a selection step of a run whose conf gives max_apps yields at most
\* max_apps ids, a prefix of a work set selected without max_apps; a
\* selection step of an initial load without max_apps yields the validated
\* candidates.
C16_MaxAppsTruncates ==
    [][(pc = "select" /\ pc' = "fetch") =>
          /\ max_apps # NoMax =>
                /\ Len(app_ids') <= max_apps
                /\ \E pivot \in AppIds \cup {MidId}, reversed \in BOOLEAN :
                      LET whole == WorkSet(app_ids, is_initial_load, NoMax,
                                           processed_ids, pivot, reversed)
                      IN app_ids' = Prefix(whole, Len(app_ids'))
          /\ (is_initial_load /\ max_apps = NoMax) => app_ids' = app_ids]_vars

\* the ids of the records of a batch's results
ResultIds(results) == [r \in DOMAIN results |-> results[r].cleaned.appid]

\* C17: while extract_and_upload fetches, the batches are the consecutive
\* slices of 200 ids of the work set (the last one the rest); at most 3
\* batches are running; the results of a finished batch are those of ids
\* of its slice, in listed order; and a running batch can finish, and the
\* oldest queued batch can start when fewer than 3 are running, whatever
\* the other batches are doing.
C17_BatchesOfTwoHundredThreeAtATime ==
    pc = "fetch" =>
        /\ (Len(batch_state) - 1) * 200 < Len(app_ids) \/ app_ids = <<>>
        /\ Len(app_ids) <= Len(batch_state) * 200
        /\ \A j \in DOMAIN batch_state :
              Batch(app_ids, j) =
                  [k \in 1..(IF j * 200 <= Len(app_ids)
                             THEN 200 ELSE Len(app_ids) - (j - 1) * 200) |->
                      app_ids[(j - 1) * 200 + k]]
        /\ Cardinality(Running) <= 3
        /\ \A j \in DOMAIN batch_state :
              batch_state[j] = "done" =>
                  ResultIds(batch_results[j]) =
                      SelectSeq(Batch(app_ids, j),
                                LAMBDA a : a \in Range(ResultIds(batch_results[j])))
        /\ \A j \in Running :
              ENABLED FinishBatch(j, [k \in DOMAIN Batch(app_ids, j) |-> PError],
                                  SomeOrder)
        /\ \A j \in DOMAIN batch_state :
              ( /\ batch_state[j] = "queued"
                /\ \A k \in 1..(j - 1) : batch_state[k] # "queued"
                /\ Cardinality(Running) < 3 ) => ENABLED StartBatch(j)

\* three batches are running and the fourth is waiting for a worker
C17_Witness ==
    /\ pc = "fetch"
    /\ Cardinality(Running) = 3
    /\ \E j \in DOMAIN batch_state : batch_state[j] = "queued"

\* C18: every cleaned record written whose owners string is "lo .. hi",
\* the counts written with thousands separators, has min_owners = lo and
\* max_owners = hi; one whose owners string is a single count has that
\* count as min_owners and as max_owners.
C18_OwnersRangeParsed ==
    \A key \in DOMAIN cleaned_blobs : \A r \in DOMAIN cleaned_blobs[key] :
        LET rec == cleaned_blobs[key][r]
        IN /\ \A lo \in OwnerCounts, hi \in OwnerCounts :
                 rec.owners = OwnersOfRange(lo, hi) =>
                     rec.min_owners = lo /\ rec.max_owners = hi
           /\ \A n \in OwnerCounts :
                 rec.owners = Grouped(n) =>
                     rec.min_owners = n /\ rec.max_owners = n

\* a record with the owners string "0 .. 20,000" has been written
C18_Witness ==
    \E key \in DOMAIN cleaned_blobs : \E r \in DOMAIN cleaned_blobs[key] :
        /\ cleaned_blobs[key][r].owners = OwnersRange
        /\ cleaned_blobs[key][r].max_owners = 20000

\* C19: while extract_and_upload runs, the raw and the cleaned blob it has
\* written under number k hold the raw and the cleaned records fetch_batch
\* returned for the k-th batch, whose ids follow the listed order of the
\* k-th slice of the work set and are the same in both blobs; and no
\* record is in two cleaned blobs or in two raw blobs of the run.
C19_BlobHoldsItsSlice ==
    pc = "fetch" =>
        /\ \A key \in DOMAIN raw_blobs :
              key[1] = ds =>
                  /\ key[2] \in DOMAIN batch_results
                  /\ raw_blobs[key] = RawData(batch_results[key[2]])
                  /\ ResultIds(batch_results[key[2]]) =
                         SelectSeq(Batch(app_ids, key[2]),
                                   LAMBDA a : a \in Range(ResultIds(batch_results[key[2]])))
        /\ \A key \in DOMAIN cleaned_blobs :
              key[1] = ds =>
                  /\ key \in DOMAIN raw_blobs
                  /\ cleaned_blobs[key] = CleanedData(batch_results[key[2]])
                  /\ [r \in DOMAIN raw_blobs[key] |-> raw_blobs[key][r].appid]
                        = [r \in DOMAIN cleaned_blobs[key] |-> cleaned_blobs[key][r].appid]
        /\ \A k1 \in DOMAIN cleaned_blobs, k2 \in DOMAIN cleaned_blobs :
              (k1[1] = ds /\ k2[1] = ds /\ k1 # k2) =>
                  Range(cleaned_blobs[k1]) \cap Range(cleaned_blobs[k2]) = {}
        /\ \A k1 \in DOMAIN raw_blobs, k2 \in DOMAIN raw_blobs :
              (k1[1] = ds /\ k2[1] = ds /\ k1 # k2) =>
                  Range(raw_blobs[k1]) \cap Range(raw_blobs[k2]) = {}

\* C21: in every state any sequence of merge runs can reach, every id
\* that has at least one versioned entry has exactly one active entry (so
\* no id is left with closed versions only, and an id that has an active
\* version keeps one, as entries are never removed).
C21_ExactlyOneActive ==
    \A a \in AppIds :
        EntriesOf(store, a) # {} => Cardinality(ActiveOf(store, a)) = 1

====
